---------------------------- MODULE Spec2Model ----------------------------
(***************************************************************************)
(* The value proxy of the KNoT SDK (core/src/proxy.c): the channel table   *)
(* proxy_pool, its registration and configuration, and the decision of     *)
(* knot_proxy_value_set_basic / knot_proxy_value_set_string whether a      *)
(* value is to be sent.                                                    *)
(*                                                                         *)
(* Representation.  A knot_value_type union is the sequence of its bytes   *)
(* (little endian); val_i, val_f and val_b are views of the first bytes.   *)
(* A float is its IEEE-754 binary32 bit pattern, an s32 word.  The event   *)
(* flags, a bit mask in C, are the set of the bits that are set.           *)
(***************************************************************************)
EXTENDS Integers, Sequences, FiniteSets, TLC

(***************************************************************************)
(* Program constants                                                       *)
(***************************************************************************)
CONFIG_KNOT_THING_DATA_MAX == 2   \* slots of proxy_pool (Kconfig)
KNOT_DATA_RAW_SIZE == 4           \* bytes of value.raw, and of the union
NO_ID == 255                      \* 0xff: the slot is not registered
EINVAL == 22

KNOT_EVT_FLAG_NONE == 0
KNOT_EVT_FLAG_TIME == 1
KNOT_EVT_FLAG_LOWER_THRESHOLD == 2
KNOT_EVT_FLAG_UPPER_THRESHOLD == 4
KNOT_EVT_FLAG_CHANGE == 8

KNOT_VALUE_TYPE_INT == 1
KNOT_VALUE_TYPE_FLOAT == 2
KNOT_VALUE_TYPE_BOOL == 3
KNOT_VALUE_TYPE_RAW == 4

(***************************************************************************)
(* Bounds of the model                                                     *)
(***************************************************************************)
\* k_uptime_get() is followed while it is within MaxTicks seconds of a
\* multiple of 2^32 ms, up to MaxTicks seconds past the first one.
MaxTicks == 2

(***************************************************************************)
(* The clock.  Time is counted in units of 8 ms, which keeps 2^32 ms       *)
(* within the integers of the model checker; every time of the model is a  *)
(* multiple of 8 ms, so the arithmetic of check_timeout is exact.          *)
(***************************************************************************)
\* 1000 ms
SEC == 1000 \div 8
\* the range of u32_t current_time, 2^32 ms
U32_WRAP == 2 ^ 29
\* the last time of the model
MaxUptime == U32_WRAP + MaxTicks * SEC

MIN(a, b) == IF a < b THEN a ELSE b

(***************************************************************************)
(* Bytes and words                                                         *)
(***************************************************************************)
ByteOf(n, k) == (n \div (256 ^ k)) % 256

\* the four bytes of an s32, two's complement, little endian
EncI(n) ==
    IF n >= 0
    THEN << ByteOf(n, 0), ByteOf(n, 1), ByteOf(n, 2), ByteOf(n, 3) >>
    ELSE LET m == -(n + 1)
         IN  << 255 - ByteOf(m, 0), 255 - ByteOf(m, 1),
                255 - ByteOf(m, 2), 255 - ByteOf(m, 3) >>

\* the s32 held in the first four bytes
DecI(b) ==
    b[1] + 256 * b[2] + 65536 * b[3]
      + 16777216 * (IF b[4] >= 128 THEN b[4] - 256 ELSE b[4])

ZeroBytes == [i \in 1..KNOT_DATA_RAW_SIZE |-> 0]

\* memcpy(dst, src, n) into a buffer of KNOT_DATA_RAW_SIZE bytes, n within it
MemCpy(dst, src, n) ==
    [i \in 1..KNOT_DATA_RAW_SIZE |-> IF i <= n THEN src[i] ELSE dst[i]]

\* union views: a write through a member changes the bytes of that member
val_i(v) == DecI(v)
val_f(v) == DecI(v)
val_b(v) == v[1]
SetWord(v, w) == MemCpy(v, EncI(w), 4)
SetBool(v, b) == MemCpy(v, << b >>, 1)

(***************************************************************************)
(* binary32 values as bit patterns                                         *)
(***************************************************************************)
F32Mag(b) == IF b >= 0 THEN b ELSE (b + 2147483647) + 1
F32IsNaN(b) == F32Mag(b) > 2139095040
F32Key(b) == IF b >= 0 THEN b ELSE -F32Mag(b)
F32Gt(a, b) == ~F32IsNaN(a) /\ ~F32IsNaN(b) /\ F32Key(a) > F32Key(b)
F32Lt(a, b) == F32Gt(b, a)
F32Ne(a, b) == F32IsNaN(a) \/ F32IsNaN(b) \/ F32Key(a) # F32Key(b)

\* floor(log2 a), a >= 1
Log2(a) == CHOOSE e \in 0..30 : 2 ^ e <= a /\ (e = 30 \/ a < 2 ^ (e + 1))

\* (float) n for an s32 n: round to nearest, ties to even
IntToF32(n) ==
    IF n = 0 THEN 0
    ELSE IF n = -2147483647 - 1 THEN -822083584
    ELSE LET a == IF n < 0 THEN -n ELSE n
             e == Log2(a)
             q == IF e <= 23
                  THEN a * (2 ^ (23 - e))
                  ELSE LET sh == e - 23
                           d == a \div (2 ^ sh)
                           r == a % (2 ^ sh)
                           h == 2 ^ (sh - 1)
                       IN  IF r > h \/ (r = h /\ d % 2 = 1) THEN d + 1 ELSE d
             bits == (e + 127) * 8388608 + (q - 8388608)
         IN  IF n < 0 THEN (bits - 2147483647) - 1 ELSE bits

(***************************************************************************)
(* The channel table                                                       *)
(***************************************************************************)
NULL == "NULL"       \* a null pointer (callback, name)

\* a slot of proxy_pool after proxy_init: memset 0, id = 0xff
ProxyInit ==
    [ id |-> NO_ID,
      schema |-> [type_id |-> 0, unit |-> 0, value_type |-> 0, name |-> ""],
      value |-> ZeroBytes,
      send |-> FALSE, wait_resp |-> FALSE,
      upper_flag |-> FALSE, lower_flag |-> FALSE,
      olen |-> 0, rlen |-> 0,
      config |-> [event_flags |-> {}, time_sec |-> 0,
                  lower_limit |-> 0, upper_limit |-> 0],
      last_timeout |-> 0,
      poll_cb |-> NULL, changed_cb |-> NULL ]

Slots == 0..(CONFIG_KNOT_THING_DATA_MAX - 1)

\* knot_schema_is_valid of the protocol library: 0 when the schema is accepted
knot_schema_is_valid(type_id, value_type, unit) ==
    IF value_type \in { KNOT_VALUE_TYPE_INT, KNOT_VALUE_TYPE_FLOAT,
                        KNOT_VALUE_TYPE_BOOL, KNOT_VALUE_TYPE_RAW }
       /\ type_id >= 0 /\ unit >= 0
    THEN 0 ELSE -1

\* knot_config_is_valid of the protocol library: 0 when the combination is accepted
knot_config_is_valid(event_flags, value_type, time_sec, lower_limit, upper_limit) ==
    IF \/ (KNOT_EVT_FLAG_TIME \in event_flags /\ time_sec = 0)
       \/ /\ event_flags \cap { KNOT_EVT_FLAG_LOWER_THRESHOLD,
                                KNOT_EVT_FLAG_UPPER_THRESHOLD } # {}
          /\ value_type \notin { KNOT_VALUE_TYPE_INT, KNOT_VALUE_TYPE_FLOAT }
    THEN -1 ELSE 0

\* knot_proxy_register with the duplicate check left out
RegisterNoDupCheck(pool, lid, id, name, type_id, value_type, unit, changed_cb, poll_cb) ==
    IF id >= CONFIG_KNOT_THING_DATA_MAX
    THEN [pool |-> pool, last_id |-> lid, ret |-> -1]
    ELSE IF knot_schema_is_valid(type_id, value_type, unit) # 0 \/ name = NULL
    THEN [pool |-> pool, last_id |-> lid, ret |-> -1]
    ELSE [ pool |-> [pool EXCEPT ![id] =
                       [@ EXCEPT !.id = id,
                                 !.schema = [type_id |-> type_id, unit |-> unit,
                                             value_type |-> value_type,
                                             name |-> name],
                                 !.send = FALSE,
                                 !.upper_flag = FALSE,
                                 !.lower_flag = FALSE,
                                 !.olen = 0,
                                 !.config.event_flags = {},
                                 !.poll_cb = poll_cb,
                                 !.changed_cb = changed_cb]],
           last_id |-> IF id > lid \/ lid = NO_ID THEN id ELSE lid,
           ret |-> id ]

\* knot_proxy_register: ret is the slot of the handle, -1 for NULL
knot_proxy_register(pool, lid, id, name, type_id, value_type, unit, changed_cb, poll_cb) ==
    IF id >= CONFIG_KNOT_THING_DATA_MAX
    THEN [pool |-> pool, last_id |-> lid, ret |-> -1]
    ELSE IF pool[id].id # NO_ID
    THEN [pool |-> pool, last_id |-> lid, ret |-> -1]
    ELSE IF knot_schema_is_valid(type_id, value_type, unit) # 0 \/ name = NULL
    THEN [pool |-> pool, last_id |-> lid, ret |-> -1]
    ELSE [ pool |-> [pool EXCEPT ![id] =
                       [@ EXCEPT !.id = id,
                                 !.schema = [type_id |-> type_id, unit |-> unit,
                                             value_type |-> value_type,
                                             name |-> name],
                                 !.send = FALSE,
                                 !.upper_flag = FALSE,
                                 !.lower_flag = FALSE,
                                 !.olen = 0,
                                 !.config.event_flags = {},
                                 !.poll_cb = poll_cb,
                                 !.changed_cb = changed_cb]],
           last_id |-> IF id > lid \/ lid = NO_ID THEN id ELSE lid,
           ret |-> id ]

\* va_arg: the i-th variadic argument; callers end the list with NULL (0)
VaArg(args, i) == IF i <= Len(args) THEN args[i] ELSE 0

\* the do/while loop of knot_proxy_set_config over the variadic arguments
RECURSIVE ParseEvents(_, _, _, _)
ParseEvents(args, i, vt, acc) ==
    LET event == VaArg(args, i) % 256
        num == vt \in { KNOT_VALUE_TYPE_INT, KNOT_VALUE_TYPE_FLOAT }
    IN  IF event = KNOT_EVT_FLAG_NONE THEN acc
        ELSE IF event = KNOT_EVT_FLAG_CHANGE
        THEN ParseEvents(args, i + 1, vt,
                 [acc EXCEPT !.event_flags = @ \cup {KNOT_EVT_FLAG_CHANGE}])
        ELSE IF event = KNOT_EVT_FLAG_TIME
        THEN ParseEvents(args, i + 2, vt,
                 [acc EXCEPT !.event_flags = @ \cup {KNOT_EVT_FLAG_TIME},
                             !.time_sec = VaArg(args, i + 1) % 65536])
        ELSE IF event = KNOT_EVT_FLAG_UPPER_THRESHOLD
        THEN ParseEvents(args, IF num THEN i + 2 ELSE i + 1, vt,
                 [acc EXCEPT !.event_flags = @ \cup {KNOT_EVT_FLAG_UPPER_THRESHOLD},
                             !.upper_limit = IF num THEN VaArg(args, i + 1) ELSE @])
        ELSE IF event = KNOT_EVT_FLAG_LOWER_THRESHOLD
        THEN ParseEvents(args, IF num THEN i + 2 ELSE i + 1, vt,
                 [acc EXCEPT !.event_flags = @ \cup {KNOT_EVT_FLAG_LOWER_THRESHOLD},
                             !.lower_limit = IF num THEN VaArg(args, i + 1) ELSE @])
        ELSE [acc EXCEPT !.ok = FALSE]

\* a configuration that stores the flags and the period it parsed before it
\* asks knot_config_is_valid
SetConfigBeforeValid(pool, id, args) ==
    IF id >= CONFIG_KNOT_THING_DATA_MAX THEN [pool |-> pool, ret |-> FALSE]
    ELSE IF pool[id].id # id THEN [pool |-> pool, ret |-> FALSE]
    ELSE LET proxy == pool[id]
             p == ParseEvents(args, 1, proxy.schema.value_type,
                     [event_flags |-> {}, time_sec |-> 0,
                      lower_limit |-> 0, upper_limit |-> 0, ok |-> TRUE])
             q == [pool EXCEPT ![id].config.event_flags = p.event_flags,
                               ![id].config.time_sec = p.time_sec]
         IN  [pool |-> q,
              ret |-> p.ok /\ knot_config_is_valid(p.event_flags,
                                  proxy.schema.value_type, p.time_sec,
                                  p.lower_limit, p.upper_limit) = 0]

\* knot_proxy_set_config(id, ...): args are the variadic arguments; a limit of
\* a float channel is passed as its bit pattern
knot_proxy_set_config(pool, id, args) ==
    IF id >= CONFIG_KNOT_THING_DATA_MAX THEN [pool |-> pool, ret |-> FALSE]
    ELSE IF pool[id].id # id THEN [pool |-> pool, ret |-> FALSE]
    ELSE LET proxy == pool[id]
             p == ParseEvents(args, 1, proxy.schema.value_type,
                     [event_flags |-> {}, time_sec |-> 0,
                      lower_limit |-> 0, upper_limit |-> 0, ok |-> TRUE])
         IN  IF ~p.ok THEN [pool |-> pool, ret |-> FALSE]
             ELSE IF knot_config_is_valid(p.event_flags, proxy.schema.value_type,
                         p.time_sec, p.lower_limit, p.upper_limit) # 0
             THEN [pool |-> pool, ret |-> FALSE]
             ELSE [ pool |-> [pool EXCEPT ![id].config =
                       [ event_flags |-> p.event_flags,
                         time_sec |-> p.time_sec,
                         upper_limit |->
                             IF KNOT_EVT_FLAG_UPPER_THRESHOLD \in p.event_flags
                             THEN p.upper_limit ELSE @.upper_limit,
                         lower_limit |->
                             IF KNOT_EVT_FLAG_LOWER_THRESHOLD \in p.event_flags
                             THEN p.lower_limit ELSE @.lower_limit ]],
                    ret |-> TRUE ]

(***************************************************************************)
(* The event detection: check_timeout and the set functions.  A function   *)
(* that takes a struct knot_proxy * takes the channel record here and      *)
(* returns the record as it leaves it, with what it returns.               *)
(***************************************************************************)
HasFlag(proxy, f) == f \in proxy.config.event_flags

\* check_timeout; now is k_uptime_get(), which the u32_t current_time truncates
check_timeout(proxy, now) ==
    IF ~HasFlag(proxy, KNOT_EVT_FLAG_TIME)
    THEN [proxy |-> proxy, ret |-> FALSE]
    ELSE LET current_time == now % U32_WRAP
             elapsed_time == (current_time - proxy.last_timeout) % U32_WRAP
         IN  IF elapsed_time >= proxy.config.time_sec * SEC
             THEN [proxy |-> [proxy EXCEPT !.last_timeout = current_time],
                   ret |-> TRUE]
             ELSE [proxy |-> proxy, ret |-> FALSE]

check_bool_change(proxy, bval) ==
    HasFlag(proxy, KNOT_EVT_FLAG_CHANGE) /\ bval # val_b(proxy.value)

check_int_change(proxy, s32val) ==
    HasFlag(proxy, KNOT_EVT_FLAG_CHANGE) /\ s32val # val_i(proxy.value)

\* the upper threshold with the limit itself counted as beyond it
UpperThresholdInclusive(proxy, s32val) ==
    HasFlag(proxy, KNOT_EVT_FLAG_UPPER_THRESHOLD)
    /\ s32val >= proxy.config.upper_limit

check_int_upper_threshold(proxy, s32val) ==
    HasFlag(proxy, KNOT_EVT_FLAG_UPPER_THRESHOLD)
    /\ s32val > proxy.config.upper_limit

\* the lower threshold with the limit itself counted as beyond it
LowerThresholdInclusive(proxy, s32val) ==
    HasFlag(proxy, KNOT_EVT_FLAG_LOWER_THRESHOLD)
    /\ s32val <= proxy.config.lower_limit

check_int_lower_threshold(proxy, s32val) ==
    HasFlag(proxy, KNOT_EVT_FLAG_LOWER_THRESHOLD)
    /\ s32val < proxy.config.lower_limit

\* check_int_change applied to a float, as line 433 does: fval is compared
\* with the stored word read as val_i and converted to float
check_int_change_of_float(proxy, fval) ==
    HasFlag(proxy, KNOT_EVT_FLAG_CHANGE)
    /\ F32Ne(fval, IntToF32(val_i(proxy.value)))

check_float_upper_threshold(proxy, fval) ==
    HasFlag(proxy, KNOT_EVT_FLAG_UPPER_THRESHOLD)
    /\ F32Gt(fval, proxy.config.upper_limit)

check_float_lower_threshold(proxy, fval) ==
    HasFlag(proxy, KNOT_EVT_FLAG_LOWER_THRESHOLD)
    /\ F32Lt(fval, proxy.config.lower_limit)

\* memcmp(proxy->value.raw, rawval, rawlen) != 0.  Beyond KNOT_DATA_RAW_SIZE
\* bytes memcmp reads past value.raw: what it finds there is oob.
RawDiffers(proxy, rawval, rawlen, oob) ==
    \/ \E i \in 1..MIN(rawlen, KNOT_DATA_RAW_SIZE) : proxy.value[i] # rawval[i]
    \/ (rawlen > KNOT_DATA_RAW_SIZE /\ oob)

check_raw_change(proxy, rawval, rawlen, oob) ==
    HasFlag(proxy, KNOT_EVT_FLAG_CHANGE)
    /\ (proxy.rlen # rawlen \/ RawDiffers(proxy, rawval, rawlen, oob))

\* taking the value with send raised whatever wait_resp is
TriggerSendAlways(proxy, olen, value) ==
    [proxy EXCEPT !.olen = olen, !.value = value, !.send = TRUE]

\* the branch of a set function that takes the value: send follows wait_resp
Trigger(proxy, olen, value) ==
    [proxy EXCEPT !.olen = olen, !.value = value, !.send = proxy.wait_resp]

\* knot_proxy_value_set_basic on a valid handle; value is the object behind
\* the const void *, four bytes of which the first is read as a bool
knot_proxy_value_set_basic(proxy, value, now) ==
    LET t == check_timeout(proxy, now)
        p == t.proxy
        timeout == t.ret
        vt == p.schema.value_type
    IN  IF vt = KNOT_VALUE_TYPE_BOOL
        THEN LET bval == value[1]
                 change == check_bool_change(p, bval)
             IN  IF p.send \/ timeout \/ change
                 THEN [proxy |-> Trigger(p, 1, SetBool(p.value, bval)),
                       ret |-> TRUE]
                 ELSE [proxy |-> p, ret |-> FALSE]
        ELSE IF vt = KNOT_VALUE_TYPE_INT
        THEN LET s32val == DecI(value)
                 change == check_int_change(p, s32val)
                 upper == check_int_upper_threshold(p, s32val)
                 lower == check_int_lower_threshold(p, s32val)
                 fire == \/ p.send \/ timeout \/ change
                         \/ (upper /\ p.upper_flag = FALSE)
                         \/ (lower /\ p.lower_flag = FALSE)
                 q == IF fire THEN Trigger(p, 4, SetWord(p.value, s32val)) ELSE p
             IN  [proxy |-> [q EXCEPT !.upper_flag = upper, !.lower_flag = lower],
                  ret |-> fire]
        ELSE IF vt = KNOT_VALUE_TYPE_FLOAT
        THEN LET fval == DecI(value)
                 change == check_int_change_of_float(p, fval)
                 upper == check_float_upper_threshold(p, fval)
                 lower == check_float_lower_threshold(p, fval)
                 fire == \/ p.send \/ timeout \/ change
                         \/ (upper /\ p.upper_flag = FALSE)
                         \/ (lower /\ p.lower_flag = FALSE)
                 q == IF fire THEN Trigger(p, 4, SetWord(p.value, fval)) ELSE p
             IN  [proxy |-> [q EXCEPT !.upper_flag = upper, !.lower_flag = lower],
                  ret |-> fire]
        ELSE [proxy |-> p, ret |-> FALSE]

\* a raw length stored without the clamp
RawLenUnclamped(len) == len

\* the length a raw set stores
RawLen(len) == MIN(KNOT_DATA_RAW_SIZE, len)

\* knot_proxy_value_set_string on a valid handle; value holds len bytes
knot_proxy_value_set_string(proxy, value, len, now, oob) ==
    IF proxy.schema.value_type # KNOT_VALUE_TYPE_RAW
    THEN [proxy |-> proxy, ret |-> FALSE]
    ELSE LET t == check_timeout(proxy, now)
             p == t.proxy
             timeout == t.ret
             change == check_raw_change(p, value, len, oob)
         IN  IF ~p.send /\ ~change /\ ~timeout
             THEN [proxy |-> p, ret |-> FALSE]
             ELSE LET n == RawLen(len)
                      q == [p EXCEPT !.rlen = n]
                  IN  [proxy |-> Trigger(q, n,
                                   MemCpy(p.value, value, n)),
                       ret |-> TRUE]

(***************************************************************************)
(* The entry points of the transport: proxy_read, proxy_write,             *)
(* proxy_force_send, proxy_confirm_sent.  A callback of the application is *)
(* what it does with the handle: cb.kind = 0, it sets nothing; 1, it calls *)
(* knot_proxy_value_set_basic(proxy, cb.value); 2, it calls                *)
(* knot_proxy_value_set_string(proxy, cb.value, cb.len).                   *)
(***************************************************************************)
NoSet == [kind |-> 0, value |-> << >>, len |-> 0, oob |-> FALSE]
BasicSet(value) == [kind |-> 1, value |-> value, len |-> 0, oob |-> FALSE]
StringSet(value, oob) == [kind |-> 2, value |-> value, len |-> Len(value), oob |-> oob]

RunCallback(proxy, cb, now) ==
    IF cb.kind = 1 THEN knot_proxy_value_set_basic(proxy, cb.value, now)
    ELSE IF cb.kind = 2
    THEN knot_proxy_value_set_string(proxy, cb.value, cb.len, now, cb.oob)
    ELSE [proxy |-> proxy, ret |-> FALSE]

\* proxy_read: ret is *olen, -1 for NULL; ran tells that poll_cb was called
proxy_read(pool, id, wait_resp, cb, now) ==
    IF pool[id].id = NO_ID \/ pool[id].poll_cb = NULL
    THEN [pool |-> pool, ret |-> -1, ran |-> FALSE, trig |-> FALSE]
    ELSE LET p == [pool[id] EXCEPT !.olen = 0, !.wait_resp = wait_resp]
             r == RunCallback(p, cb, now)
         IN  [ pool |-> [pool EXCEPT ![id] = r.proxy],
               ret |-> IF r.proxy.olen <= 0 THEN -1 ELSE r.proxy.olen,
               ran |-> TRUE, trig |-> r.ret ]

\* proxy_write of a slot of the table
proxy_write(pool, lid, id, value, value_len, cb, now) ==
    IF id > lid
    THEN [pool |-> pool, ret |-> -EINVAL, ran |-> FALSE, trig |-> FALSE]
    ELSE IF pool[id].id = NO_ID
    THEN [pool |-> pool, ret |-> -EINVAL, ran |-> FALSE, trig |-> FALSE]
    ELSE IF pool[id].changed_cb = NULL
    THEN [pool |-> pool, ret |-> 0, ran |-> FALSE, trig |-> FALSE]
    ELSE LET p == [pool[id] EXCEPT
                      !.value = MemCpy(@, value, KNOT_DATA_RAW_SIZE),
                      !.rlen = IF pool[id].schema.value_type = KNOT_VALUE_TYPE_RAW
                               THEN value_len ELSE @]
             r == RunCallback(p, cb, now)
         IN  [ pool |-> [pool EXCEPT ![id] = r.proxy],
               ret |-> r.proxy.olen, ran |-> TRUE, trig |-> r.ret ]

proxy_force_send(pool, id) ==
    IF pool[id].id = NO_ID THEN [pool |-> pool, ret |-> -EINVAL]
    ELSE [pool |-> [pool EXCEPT ![id].send = TRUE], ret |-> 0]

proxy_confirm_sent(pool, id) ==
    IF pool[id].id = NO_ID THEN [pool |-> pool, ret |-> -EINVAL]
    ELSE [pool |-> [pool EXCEPT ![id].send = FALSE], ret |-> 0]

(***************************************************************************)
(* State                                                                   *)
(***************************************************************************)
VARIABLES
    proxy_pool,   \* the table of channels
    last_id,      \* the highest registered id, 0xff before the first
    uptime,       \* k_uptime_get(), in units of 8 ms
    wild,         \* a slot outside proxy_pool has been accessed
    last,         \* the call made last, with what it returned
    hset,         \* per slot: whether a set call was evaluated on it (n); of
                  \* the last one, the candidate (w) and whether it found
                  \* send raised by proxy_force_send (forced); whether the
                  \* configuration is still the one of that call (kept); the
                  \* uptime at which check_timeout last set last_timeout (t)
    ctx           \* a proxy_read and a proxy_write of one channel running in
                  \* two contexts at once: their arguments, the statement
                  \* each is at (rpc, wpc), what each returned (rret, wret),
                  \* and the channel as it was when they began (pre)

vars == << proxy_pool, last_id, uptime, wild, last, hset, ctx >>

\* op, the entry point; id, its id; vk, the value type a delivery was encoded
\* as; wait, the wait_resp the set call ran under (the argument of proxy_read,
\* else the one left in the channel); set, the set call made (by a callback,
\* or by the application); trig, what that set call returned; ret, what the
\* entry point returned; args, the variadic arguments of
\* knot_proxy_set_config; par changes with every call
NoCall ==
    [ op |-> "init", id |-> NO_ID, vk |-> 0, wait |-> FALSE, set |-> NoSet,
      trig |-> FALSE, ret |-> 0, args |-> << >>, par |-> 0 ]

Call(op, id, vk, wait, set, trig, ret) ==
    [ op |-> op, id |-> id, vk |-> vk, wait |-> wait, set |-> set,
      trig |-> trig, ret |-> ret, args |-> << >>, par |-> 1 - last.par ]

WaitOf(id) == IF id \in Slots THEN proxy_pool[id].wait_resp ELSE FALSE

NoSetYet == [n |-> 0, w |-> 0, forced |-> FALSE, kept |-> TRUE, t |-> 0]

\* whether the set call cb is evaluated on a channel of type vt
Evaluated(cb, vt) ==
    \/ cb.kind = 1 /\ vt \in { KNOT_VALUE_TYPE_BOOL, KNOT_VALUE_TYPE_INT,
                               KNOT_VALUE_TYPE_FLOAT }
    \/ cb.kind = 2 /\ vt = KNOT_VALUE_TYPE_RAW

\* the candidate of a basic set as the channel reads it
Candidate(cb, vt) ==
    IF cb.kind # 1 THEN 0
    ELSE IF vt = KNOT_VALUE_TYPE_BOOL THEN cb.value[1] ELSE DecI(cb.value)

\* whether the set call cb calls check_timeout on a channel of type vt
ChecksTimeout(cb, vt) ==
    cb.kind = 1 \/ (cb.kind = 2 /\ vt = KNOT_VALUE_TYPE_RAW)

\* hset after the callback cb ran (or not) on slot id, whose record was proxy
Noted(id, proxy, cb, ran, now) ==
    LET vt == proxy.schema.value_type
        t == IF ran /\ ChecksTimeout(cb, vt) /\ check_timeout(proxy, now).ret
             THEN now ELSE hset[id].t
    IN  IF ran /\ Evaluated(cb, vt)
        THEN [hset EXCEPT ![id] = [n |-> 1, w |-> Candidate(cb, vt),
                                   forced |-> /\ proxy.send
                                              /\ last.op = "force"
                                              /\ last.id = id,
                                   kept |-> TRUE, t |-> t]]
        ELSE [hset EXCEPT ![id].t = t]

Idle ==
    [ busy |-> FALSE, id |-> NO_ID, pre |-> ProxyInit, wait |-> FALSE,
      rcb |-> NoSet, value |-> ZeroBytes, len |-> 0, wcb |-> NoSet,
      rpc |-> 0, wpc |-> 0, rret |-> 0, wret |-> 0 ]

Init ==
    /\ proxy_pool = [i \in Slots |-> ProxyInit]
    /\ last_id = NO_ID
    /\ uptime = 0
    /\ wild = FALSE
    /\ last = NoCall
    /\ hset = [i \in Slots |-> NoSetYet]
    /\ ctx = Idle

(***************************************************************************)
(* Actions: one per entry point                                            *)
(***************************************************************************)
Register(id, sch, changed_cb, poll_cb) ==
    LET r == knot_proxy_register(proxy_pool, last_id, id, sch.name, sch.type_id,
                                 sch.value_type, sch.unit, changed_cb, poll_cb)
    IN  /\ ~wild /\ ~ctx.busy
        /\ proxy_pool' = r.pool
        /\ last_id' = r.last_id
        /\ last' = Call("register", id, 0, FALSE, NoSet, FALSE, r.ret)
        /\ UNCHANGED << uptime, wild, hset, ctx >>

SetConfig(id, args) ==
    LET r == knot_proxy_set_config(proxy_pool, id, args)
    IN  /\ ~wild /\ ~ctx.busy
        /\ proxy_pool' = r.pool
        /\ last' = [Call("config", id, 0, FALSE, NoSet, FALSE,
                             IF r.ret THEN 1 ELSE 0) EXCEPT !.args = args]
        /\ hset' = IF r.ret THEN [hset EXCEPT ![id].kept = FALSE] ELSE hset
        /\ UNCHANGED << last_id, uptime, wild, ctx >>

Tick ==
    /\ ~wild /\ ~ctx.busy
    /\ \E d \in {SEC, U32_WRAP - MaxTicks * SEC} :
         /\ uptime + d <= MaxUptime
         /\ d = SEC => \/ uptime % U32_WRAP < MaxTicks * SEC
                       \/ uptime % U32_WRAP >= U32_WRAP - MaxTicks * SEC
         /\ uptime' = uptime + d
    /\ UNCHANGED << proxy_pool, last_id, wild, last, hset, ctx >>

\* the clock over its first MaxTicks seconds only
TickSec ==
    /\ ~wild /\ ~ctx.busy
    /\ uptime + SEC <= MaxTicks * SEC
    /\ uptime' = uptime + SEC
    /\ UNCHANGED << proxy_pool, last_id, wild, last, hset, ctx >>

Read(id, wait_resp, cb) ==
    LET r == proxy_read(proxy_pool, id, wait_resp, cb, uptime)
    IN  /\ ~wild /\ ~ctx.busy
        /\ id \in Slots
        /\ proxy_pool' = r.pool
        /\ hset' = Noted(id, proxy_pool[id], cb, r.ran, uptime)
        /\ last' = Call("read", id, 0, wait_resp, IF r.ran THEN cb ELSE NoSet,
                        r.trig, r.ret)
        /\ UNCHANGED << last_id, uptime, wild, ctx >>

\* proxy_write; vk is the value type the sender encoded value as.  With
\* id <= last_id outside the table, proxy_pool[id] is read out of bounds.
Write(id, vk, value, value_len, cb) ==
    /\ ~wild /\ ~ctx.busy
    /\ IF id <= last_id /\ id \notin Slots
       THEN /\ wild' = TRUE
            /\ \E ret \in {-EINVAL, 0} :
                 last' = Call("write", id, vk, FALSE, NoSet, FALSE, ret)
            /\ UNCHANGED << proxy_pool, last_id, uptime, hset, ctx >>
       ELSE LET r == proxy_write(proxy_pool, last_id, id, value, value_len, cb,
                                 uptime)
            IN  /\ proxy_pool' = r.pool
                /\ hset' = IF id \in Slots
                           THEN Noted(id, proxy_pool[id], cb, r.ran, uptime) ELSE hset
                /\ last' = Call("write", id, vk, WaitOf(id),
                                IF r.ran THEN cb ELSE NoSet, r.trig, r.ret)
                /\ UNCHANGED << last_id, uptime, wild, ctx >>

ForceSend(id) ==
    LET r == proxy_force_send(proxy_pool, id)
    IN  /\ ~wild /\ ~ctx.busy
        /\ id \in Slots
        /\ proxy_pool' = r.pool
        /\ last' = Call("force", id, 0, FALSE, NoSet, FALSE, r.ret)
        /\ UNCHANGED << last_id, uptime, wild, hset, ctx >>

ConfirmSent(id) ==
    LET r == proxy_confirm_sent(proxy_pool, id)
    IN  /\ ~wild /\ ~ctx.busy
        /\ id \in Slots
        /\ proxy_pool' = r.pool
        /\ last' = Call("confirm", id, 0, FALSE, NoSet, FALSE, r.ret)
        /\ UNCHANGED << last_id, uptime, wild, hset, ctx >>

\* a set call of the application outside the callbacks, on the handle that
\* knot_proxy_register returned for slot id
Set(id, cb) ==
    LET r == RunCallback(proxy_pool[id], cb, uptime)
    IN  /\ ~wild /\ ~ctx.busy
        /\ id \in Slots
        /\ proxy_pool[id].id # NO_ID
        /\ cb.kind # 0
        /\ proxy_pool' = [proxy_pool EXCEPT ![id] = r.proxy]
        /\ hset' = Noted(id, proxy_pool[id], cb, TRUE, uptime)
        /\ last' = Call("set", id, 0, WaitOf(id), cb, r.ret,
                        IF r.ret THEN 1 ELSE 0)
        /\ UNCHANGED << last_id, uptime, wild, ctx >>

\* a set call on a null handle: if (unlikely(!proxy)) return false
SetNull(cb) ==
    /\ ~wild /\ ~ctx.busy
    /\ cb.kind # 0
    /\ last' = Call("set", NO_ID, 0, FALSE, cb, FALSE, 0)
    /\ UNCHANGED << proxy_pool, last_id, uptime, wild, hset, ctx >>

(***************************************************************************)
(* Two contexts.  proxy.c takes no lock and masks no interrupt, so a       *)
(* proxy_read and a proxy_write of one channel that run in two contexts    *)
(* interleave statement by statement.  The set function a callback calls   *)
(* is taken as one step; finer interleavings only add outcomes.  The       *)
(* model follows one such pair of calls to the return of both.             *)
(***************************************************************************)
\* both calls are entered, on a channel that has both callbacks
Fork(id, wait_resp, rcb, value, value_len, wcb) ==
    /\ ~wild /\ ~ctx.busy
    /\ id \in Slots
    /\ id <= last_id
    /\ proxy_pool[id].id # NO_ID
    /\ proxy_pool[id].poll_cb # NULL
    /\ proxy_pool[id].changed_cb # NULL
    /\ ctx' = [ busy |-> TRUE, id |-> id, pre |-> proxy_pool[id],
                wait |-> wait_resp, rcb |-> rcb, value |-> value,
                len |-> value_len, wcb |-> wcb,
                rpc |-> 1, wpc |-> 1, rret |-> 0, wret |-> 0 ]
    /\ UNCHANGED << proxy_pool, last_id, uptime, wild, last, hset >>

\* the next statement of proxy_read: olen = 0; wait_resp = wait_resp;
\* poll_cb(proxy); the test of olen and the return
ReadStep ==
    LET id == ctx.id
        proxy == proxy_pool[id]
        q == IF ctx.rpc = 1 THEN [proxy EXCEPT !.olen = 0]
             ELSE IF ctx.rpc = 2 THEN [proxy EXCEPT !.wait_resp = ctx.wait]
             ELSE IF ctx.rpc = 3 THEN RunCallback(proxy, ctx.rcb, uptime).proxy
             ELSE proxy
    IN  /\ ctx.busy
        /\ ctx.rpc \in 1..4
        /\ proxy_pool' = [proxy_pool EXCEPT ![id] = q]
        /\ ctx' = [ctx EXCEPT !.rpc = @ + 1,
                              !.rret = IF ctx.rpc = 4
                                       THEN (IF proxy.olen <= 0 THEN -1
                                             ELSE proxy.olen)
                                       ELSE @]
        /\ UNCHANGED << last_id, uptime, wild, last, hset >>

\* the next statement of proxy_write: the memcpy of the value; rlen =
\* value_len on a raw channel; changed_cb(proxy); return proxy->olen
WriteStep ==
    LET id == ctx.id
        proxy == proxy_pool[id]
        q == IF ctx.wpc = 1
             THEN [proxy EXCEPT !.value = MemCpy(@, ctx.value, KNOT_DATA_RAW_SIZE)]
             ELSE IF ctx.wpc = 2
             THEN [proxy EXCEPT !.rlen =
                      IF proxy.schema.value_type = KNOT_VALUE_TYPE_RAW
                      THEN ctx.len ELSE @]
             ELSE IF ctx.wpc = 3 THEN RunCallback(proxy, ctx.wcb, uptime).proxy
             ELSE proxy
    IN  /\ ctx.busy
        /\ ctx.wpc \in 1..4
        /\ proxy_pool' = [proxy_pool EXCEPT ![id] = q]
        /\ ctx' = [ctx EXCEPT !.wpc = @ + 1,
                              !.wret = IF ctx.wpc = 4 THEN proxy.olen ELSE @]
        /\ UNCHANGED << last_id, uptime, wild, last, hset >>

(***************************************************************************)
(* The environment: what the application and the transport call with       *)
(***************************************************************************)
SchInt == [name |-> "THERMO", type_id |-> 1, value_type |-> KNOT_VALUE_TYPE_INT, unit |-> 1]
SchFloat == [name |-> "LEVEL", type_id |-> 2, value_type |-> KNOT_VALUE_TYPE_FLOAT, unit |-> 1]
SchBool == [name |-> "LED", type_id |-> 3, value_type |-> KNOT_VALUE_TYPE_BOOL, unit |-> 0]
SchRaw == [name |-> "PLATE", type_id |-> 0, value_type |-> KNOT_VALUE_TYPE_RAW, unit |-> 0]
\* rejected: no such value type; no name
SchBadType == [name |-> "BAD", type_id |-> 0, value_type |-> 0, unit |-> 0]
SchNoName == [name |-> NULL, type_id |-> 3, value_type |-> KNOT_VALUE_TYPE_BOOL, unit |-> 0]

\* 0.0f, 1.0f, 2.0f, 3.0f
F0 == IntToF32(0)
F1 == IntToF32(1)
F2 == IntToF32(2)
F3 == IntToF32(3)

\* n bytes b
Bytes(n, b) == [i \in 1..n |-> b]

IntSets(W) == { BasicSet(EncI(w)) : w \in W }
BoolSets == { BasicSet(<< b, 0, 0, 0 >>) : b \in {0, 1} }
RawSets(L, B, O) == { StringSet(Bytes(n, b), oob) : n \in L, b \in B, oob \in O }

\* set calls of the variant the channel does not take
WrongSets(vt) ==
    IF vt = KNOT_VALUE_TYPE_RAW THEN { BasicSet(EncI(1)) }
    ELSE IF vt = 0 THEN {}
    ELSE { StringSet(Bytes(2, 1), FALSE) }

\* what the transport delivers: the union, its length, the type it encodes
DlvInt == [vk |-> KNOT_VALUE_TYPE_INT, value |-> EncI(2), len |-> 4]
DlvFloat == [vk |-> KNOT_VALUE_TYPE_FLOAT, value |-> EncI(F2), len |-> 4]
DlvBool == [vk |-> KNOT_VALUE_TYPE_BOOL, value |-> << 1, 0, 0, 0 >>, len |-> 1]
DlvRaw(n) == [vk |-> KNOT_VALUE_TYPE_RAW, value |-> Bytes(KNOT_DATA_RAW_SIZE, 1), len |-> n]

TypeOf(id) == IF id \in Slots THEN proxy_pool[id].schema.value_type ELSE 0

RegInt == [sch |-> SchInt, changed_cb |-> "cb", poll_cb |-> "cb"]
RegFloat == [sch |-> SchFloat, changed_cb |-> "cb", poll_cb |-> "cb"]
RegBool == [sch |-> SchBool, changed_cb |-> "cb", poll_cb |-> "cb"]
RegRaw == [sch |-> SchRaw, changed_cb |-> "cb", poll_cb |-> "cb"]
\* a channel the transport neither polls nor delivers to
RegBoolNoCb == [sch |-> SchBool, changed_cb |-> NULL, poll_cb |-> NULL]
RegBadType == [sch |-> SchBadType, changed_cb |-> "cb", poll_cb |-> "cb"]
RegNoName == [sch |-> SchNoName, changed_cb |-> "cb", poll_cb |-> "cb"]

(***************************************************************************)
(* The steps of an environment E: E.ids, the ids it calls with; E.reg, the *)
(* registrations it makes; E.args[vt], the variadic arguments it           *)
(* configures a channel of type vt with; E.sets[vt], the set calls it      *)
(* makes on one; E.waits, the wait_resp it reads with; E.dlv, what it      *)
(* delivers.                                                               *)
(***************************************************************************)
Step(E) ==
    \/ \E id \in E.ids, reg \in E.reg :
         Register(id, reg.sch, reg.changed_cb, reg.poll_cb)
    \/ \E id \in E.ids : \E args \in E.args[TypeOf(id)] : SetConfig(id, args)
    \/ \E id \in E.ids \cap Slots, w \in E.waits :
       \E cb \in {NoSet} \cup E.sets[TypeOf(id)] :
         Read(id, w, cb)
    \/ \E id \in E.ids, d \in E.dlv :
       \E cb \in {NoSet} \cup E.sets[TypeOf(id)] :
         Write(id, d.vk, d.value, d.len, cb)
    \/ \E id \in E.ids \cap Slots : ForceSend(id)
    \/ \E id \in E.ids \cap Slots : ConfirmSent(id)
    \/ \E id \in E.ids \cap Slots : \E cb \in E.sets[TypeOf(id)] : Set(id, cb)
    \/ SetNull(BasicSet(EncI(1)))

ValueTypes == 0..4

\* one channel of any type, configured for changes and thresholds.  No
\* channel is configured with KNOT_EVT_FLAG_TIME, so nothing reads the clock.
EnvOne ==
    [ ids |-> {0, CONFIG_KNOT_THING_DATA_MAX},
      reg |-> {RegInt, RegFloat, RegBool, RegRaw, RegBoolNoCb},
      args |-> [vt \in ValueTypes |->
                  { << 0 >>, << KNOT_EVT_FLAG_CHANGE, 0 >> } \cup
                  (IF vt = KNOT_VALUE_TYPE_INT
                   THEN { << KNOT_EVT_FLAG_UPPER_THRESHOLD, 1, 0 >> }
                   ELSE IF vt = KNOT_VALUE_TYPE_FLOAT
                   THEN { << KNOT_EVT_FLAG_UPPER_THRESHOLD, F1, 0 >> }
                   ELSE {})],
      sets |-> [vt \in ValueTypes |->
                  IF vt = KNOT_VALUE_TYPE_INT
                  THEN IntSets({0, 2}) \cup WrongSets(vt)
                  ELSE IF vt = KNOT_VALUE_TYPE_FLOAT
                  THEN IntSets({F0, F2}) \cup WrongSets(vt)
                  ELSE IF vt = KNOT_VALUE_TYPE_BOOL
                  THEN BoolSets \cup WrongSets(vt)
                  ELSE IF vt = KNOT_VALUE_TYPE_RAW
                  THEN RawSets({2, KNOT_DATA_RAW_SIZE + 1}, {1}, BOOLEAN)
                       \cup WrongSets(vt)
                  ELSE {}],
      waits |-> BOOLEAN,
      dlv |-> { DlvInt, DlvRaw(KNOT_DATA_RAW_SIZE + 1) } ]

Next == Step(EnvOne)

Spec == Init /\ [][Next]_vars

\* two channels, of two types, and registrations that are rejected
EnvTable ==
    [ ids |-> 0..CONFIG_KNOT_THING_DATA_MAX,
      reg |-> {RegInt, RegBoolNoCb, RegBadType},
      args |-> [vt \in ValueTypes |-> { << KNOT_EVT_FLAG_CHANGE, 0 >> }],
      sets |-> [vt \in ValueTypes |->
                  IF vt = KNOT_VALUE_TYPE_INT THEN IntSets({2})
                  ELSE IF vt = KNOT_VALUE_TYPE_BOOL
                  THEN { BasicSet(<< 1, 0, 0, 0 >>) }
                  ELSE {}],
      waits |-> {TRUE},
      dlv |-> { DlvInt } ]

NextTable == Step(EnvTable)

SpecTable == Init /\ [][NextTable]_vars

\* one Int32 channel with thresholds
EnvInt ==
    [ ids |-> {0},
      reg |-> {RegInt},
      args |-> [vt \in ValueTypes |->
                  { << 0 >>,
                    << KNOT_EVT_FLAG_UPPER_THRESHOLD, 1, 0 >>,
                    << KNOT_EVT_FLAG_UPPER_THRESHOLD, 2, 0 >>,
                    << KNOT_EVT_FLAG_UPPER_THRESHOLD, 2,
                       KNOT_EVT_FLAG_LOWER_THRESHOLD, 1, 0 >> }],
      sets |-> [vt \in ValueTypes |-> IntSets({0, 1, 2, 3})],
      waits |-> BOOLEAN,
      dlv |-> { DlvInt } ]

NextInt == Step(EnvInt)

SpecInt == Init /\ [][NextInt]_vars

\* one channel with a timer of two seconds, and the clock
EnvTimer ==
    [ ids |-> {0},
      reg |-> {RegInt, RegRaw},
      args |-> [vt \in ValueTypes |->
                  { << 0 >>, << KNOT_EVT_FLAG_TIME, 2, 0 >> }],
      sets |-> [vt \in ValueTypes |->
                  IF vt = KNOT_VALUE_TYPE_INT
                  THEN IntSets({1}) \cup WrongSets(vt)
                  ELSE RawSets({2}, {1}, {FALSE}) \cup WrongSets(vt)],
      waits |-> BOOLEAN,
      dlv |-> { DlvInt } ]

NextTimer == Step(EnvTimer) \/ Tick

SpecTimer == Init /\ [][NextTimer]_vars

\* one channel configured over and again, with calls that are refused
EnvConfig ==
    [ ids |-> {0, CONFIG_KNOT_THING_DATA_MAX},
      reg |-> {RegInt, RegBool},
      args |-> [vt \in ValueTypes |->
                  { << 0 >>,
                    << KNOT_EVT_FLAG_CHANGE, 0 >>,
                    << KNOT_EVT_FLAG_CHANGE, 16, 0 >>,
                    << KNOT_EVT_FLAG_TIME, 0, 0 >>,
                    << KNOT_EVT_FLAG_TIME, 2, 0 >>,
                    << KNOT_EVT_FLAG_UPPER_THRESHOLD, 3, 0 >>,
                    << KNOT_EVT_FLAG_UPPER_THRESHOLD, 2,
                       KNOT_EVT_FLAG_LOWER_THRESHOLD, 1, 0 >> } \cup
                  (IF vt = KNOT_VALUE_TYPE_BOOL
                   THEN { << KNOT_EVT_FLAG_CHANGE,
                             KNOT_EVT_FLAG_UPPER_THRESHOLD, 0 >> }
                   ELSE {})],
      sets |-> [vt \in ValueTypes |->
                  IF vt = KNOT_VALUE_TYPE_INT THEN IntSets({2})
                  ELSE IF vt = KNOT_VALUE_TYPE_BOOL
                  THEN { BasicSet(<< 1, 0, 0, 0 >>) }
                  ELSE {}],
      waits |-> {FALSE},
      dlv |-> { DlvInt } ]

NextConfig == Step(EnvConfig)

SpecConfig == Init /\ [][NextConfig]_vars

\* one numeric channel with both thresholds and a timer, and the first
\* seconds of the clock
EnvNum ==
    [ ids |-> {0},
      reg |-> {RegInt, RegFloat},
      args |-> [vt \in ValueTypes |->
                  IF vt = KNOT_VALUE_TYPE_FLOAT
                  THEN { << 0 >>,
                         << KNOT_EVT_FLAG_TIME, 2,
                            KNOT_EVT_FLAG_UPPER_THRESHOLD, F1,
                            KNOT_EVT_FLAG_LOWER_THRESHOLD, F1, 0 >> }
                  ELSE { << 0 >>,
                         << KNOT_EVT_FLAG_TIME, 2,
                            KNOT_EVT_FLAG_UPPER_THRESHOLD, 1,
                            KNOT_EVT_FLAG_LOWER_THRESHOLD, 1, 0 >> }],
      sets |-> [vt \in ValueTypes |->
                  IF vt = KNOT_VALUE_TYPE_FLOAT
                  THEN IntSets({F0, F1, F2})
                  ELSE IntSets({0, 1, 2})],
      waits |-> BOOLEAN,
      dlv |-> { DlvInt } ]

NextNum == Step(EnvNum) \/ TickSec

SpecNum == Init /\ [][NextNum]_vars

\* one Raw channel, set with strings down to the empty one
EnvRaw ==
    [ ids |-> {0},
      reg |-> {RegRaw},
      args |-> [vt \in ValueTypes |->
                  { << 0 >>, << KNOT_EVT_FLAG_CHANGE, 0 >> }],
      sets |-> [vt \in ValueTypes |->
                  RawSets({0, 2}, {1, 2}, {FALSE}) \cup WrongSets(vt)],
      waits |-> BOOLEAN,
      dlv |-> { DlvRaw(2) } ]

NextRaw == Step(EnvRaw)

SpecRaw == Init /\ [][NextRaw]_vars

\* one Int32 channel read and written from two contexts
EnvConc ==
    [ ids |-> {0},
      reg |-> {RegInt},
      args |-> [vt \in ValueTypes |->
                  { << 0 >>, << KNOT_EVT_FLAG_CHANGE, 0 >> }],
      sets |-> [vt \in ValueTypes |-> IntSets({1})],
      waits |-> BOOLEAN,
      dlv |-> { DlvInt } ]

Conc(E) ==
    \/ \E id \in E.ids \cap Slots, w \in E.waits, d \in E.dlv :
       \E rcb \in {NoSet} \cup E.sets[TypeOf(id)] :
       \E wcb \in {NoSet} \cup E.sets[TypeOf(id)] :
         Fork(id, w, rcb, d.value, d.len, wcb)
    \/ ReadStep
    \/ WriteStep

NextConc == Step(EnvConc) \/ Conc(EnvConc)

SpecConc == Init /\ [][NextConc]_vars

-----------------------------------------------------------------------------
\* What the properties below speak of

\* this step is a call of an entry point
Called == last'.par # last.par

Registered(id) == proxy_pool[id].id # NO_ID

TypeAt(id) == proxy_pool[id].schema.value_type

FlagsAt(id) == proxy_pool[id].config.event_flags

\* this step makes a set call on channel id, of the variant of its type
SetCalled(id) ==
    /\ Called
    /\ last'.id = id
    /\ Registered(id)
    /\ last'.set.kind # 0
    /\ Evaluated(last'.set, TypeAt(id))

\* the last call made a set call on its channel, of the variant of its type
SetDone ==
    /\ last.id \in Slots
    /\ last.set.kind # 0
    /\ Evaluated(last.set, TypeAt(last.id))

\* C1: registering an id that is already registered returns the null handle
\* and leaves the table, the registered channel included, as it was
C1_DuplicateRegister ==
    [][\A id \in Slots :
         (Called /\ last'.op = "register" /\ last'.id = id /\ Registered(id))
         => /\ last'.ret = -1
            /\ proxy_pool' = proxy_pool
            /\ last_id' = last_id]_vars

\* a registration was refused on a configured channel below last_id
C1_Witness ==
    /\ last.op = "register"
    /\ last.id \in Slots
    /\ last.ret = -1
    /\ proxy_pool[last.id].id = last.id
    /\ proxy_pool[last.id].config.event_flags # {}
    /\ last_id > last.id

C3_SameCandidateTwice ==
    [][\A id \in Slots :
         ( /\ SetCalled(id)
           /\ last'.op \in {"set", "read"}
           /\ SetDone
           /\ last.op \in {"set", "read"}
           /\ last.id = id
           /\ last.set = last'.set
           /\ FlagsAt(id) = {KNOT_EVT_FLAG_CHANGE}
           /\ ~proxy_pool[id].send
           /\ ~last.wait
           /\ ~last'.wait )
         => ~last'.trig]_vars

\* whether candidate c is beyond a limit the channel is configured with
Beyond(proxy, c) ==
    IF proxy.schema.value_type = KNOT_VALUE_TYPE_INT
    THEN \/ /\ KNOT_EVT_FLAG_UPPER_THRESHOLD \in proxy.config.event_flags
            /\ c > proxy.config.upper_limit
         \/ /\ KNOT_EVT_FLAG_LOWER_THRESHOLD \in proxy.config.event_flags
            /\ c < proxy.config.lower_limit
    ELSE IF proxy.schema.value_type = KNOT_VALUE_TYPE_FLOAT
    THEN \/ /\ KNOT_EVT_FLAG_UPPER_THRESHOLD \in proxy.config.event_flags
            /\ F32Gt(c, proxy.config.upper_limit)
         \/ /\ KNOT_EVT_FLAG_LOWER_THRESHOLD \in proxy.config.event_flags
            /\ F32Lt(c, proxy.config.lower_limit)
    ELSE FALSE

\* C4: the set call that follows proxy_force_send on a channel triggers; and
\* outside wait mode the force is spent by it: the same set call made again
\* right after it, with no timer configured and a candidate beyond no limit,
\* does not trigger
C4_ForcedSendOnce ==
    [][\A id \in Slots :
         /\ ( /\ SetCalled(id)
              /\ last.op = "force"
              /\ last.id = id
              /\ last.ret = 0 )
            => last'.trig
         /\ ( /\ SetCalled(id)
              /\ last'.op \in {"set", "read"}
              /\ SetDone
              /\ last.op \in {"set", "read"}
              /\ last.id = id
              /\ last.trig
              /\ hset[id].forced
              /\ last.set = last'.set
              /\ ~last.wait
              /\ ~last'.wait
              /\ KNOT_EVT_FLAG_TIME \notin FlagsAt(id)
              /\ ~Beyond(proxy_pool[id], Candidate(last'.set, TypeAt(id))) )
            => ~last'.trig]_vars

\* C5: on a channel configured with the timer alone, with no send pending
\* and outside wait mode, a set call triggers exactly when time_sec seconds
\* or more have passed since last_timeout was set, and a set call that
\* triggers sets last_timeout to the time of the call
C5_TimerPeriod ==
    [][\A id \in Slots :
         ( /\ SetCalled(id)
           /\ FlagsAt(id) = {KNOT_EVT_FLAG_TIME}
           /\ ~proxy_pool[id].send
           /\ ~last'.wait )
         => /\ last'.trig <=>
                 (uptime - hset[id].t >= proxy_pool[id].config.time_sec * SEC)
            /\ last'.trig =>
                 proxy_pool'[id].last_timeout = uptime % U32_WRAP]_vars

\* the bytes stored in the channel are the first n bytes of candidate c
StoredPrefix(proxy, c, n) == \A i \in 1..n : proxy.value[i] = c[i]

\* C6: a knot_proxy_value_set_string that triggers leaves rlen and olen at
\* the smaller of the length given and KNOT_DATA_RAW_SIZE, and that many
\* leading bytes of the candidate in the value; a candidate longer than the
\* buffer is cut, and the call reports the trigger
C6_RawTruncation ==
    ( /\ SetDone
      /\ last.set.kind = 2
      /\ last.trig )
    => LET proxy == proxy_pool[last.id]
           n == MIN(last.set.len, KNOT_DATA_RAW_SIZE)
       IN  /\ proxy.rlen = n
           /\ proxy.olen = n
           /\ StoredPrefix(proxy, last.set.value, n)
           /\ last.op = "set" => last.ret = 1
           /\ last.op \in {"read", "write"} => last.ret = n

\* a candidate longer than the buffer triggered and was cut
C6_Witness ==
    /\ SetDone
    /\ last.set.kind = 2
    /\ last.trig
    /\ last.set.len > KNOT_DATA_RAW_SIZE
    /\ proxy_pool[last.id].rlen = KNOT_DATA_RAW_SIZE
    /\ proxy_pool[last.id].olen = KNOT_DATA_RAW_SIZE

\* C7: the rlen of a Raw channel never exceeds KNOT_DATA_RAW_SIZE, whatever
\* lengths the set calls and the deliveries were given
C7_RawLenBounded ==
    \A id \in Slots :
        TypeAt(id) = KNOT_VALUE_TYPE_RAW
        => proxy_pool[id].rlen <= KNOT_DATA_RAW_SIZE

\* C8: a set call of the variant of another kind, and a delivery encoded as
\* another kind to a channel that takes deliveries, are rejected and leave
\* value and rlen as they were
C8_TypeFidelity ==
    [][\A id \in Slots :
         /\ ( /\ Called
              /\ last'.op \in {"set", "read"}
              /\ last'.id = id
              /\ Registered(id)
              /\ last'.set.kind # 0
              /\ ~Evaluated(last'.set, TypeAt(id)) )
            => /\ ~last'.trig
               /\ proxy_pool'[id].value = proxy_pool[id].value
               /\ proxy_pool'[id].rlen = proxy_pool[id].rlen
         /\ ( /\ Called
              /\ last'.op = "write"
              /\ last'.id = id
              /\ Registered(id)
              /\ proxy_pool[id].changed_cb # NULL
              /\ last'.vk # TypeAt(id) )
            => /\ last'.ret < 0
               /\ proxy_pool'[id].value = proxy_pool[id].value
               /\ proxy_pool'[id].rlen = proxy_pool[id].rlen]_vars

\* C9: proxy_confirm_sent on a registered channel leaves both send and
\* wait_resp false
C9_ConfirmClearsBoth ==
    ( /\ last.op = "confirm"
      /\ last.id \in Slots
      /\ last.ret = 0 )
    => /\ ~proxy_pool[last.id].send
       /\ ~proxy_pool[last.id].wait_resp

\* the channel holds the candidate of the set call cb: the bool, the word,
\* or the bytes of a raw candidate up to KNOT_DATA_RAW_SIZE with their count
StoredCandidate(proxy, cb) ==
    LET vt == proxy.schema.value_type
    IN  IF vt = KNOT_VALUE_TYPE_BOOL
        THEN val_b(proxy.value) = Candidate(cb, vt)
        ELSE IF vt = KNOT_VALUE_TYPE_RAW
        THEN /\ proxy.rlen = MIN(cb.len, KNOT_DATA_RAW_SIZE)
             /\ StoredPrefix(proxy, cb.value, MIN(cb.len, KNOT_DATA_RAW_SIZE))
        ELSE val_i(proxy.value) = Candidate(cb, vt)

\* C10 as stated: after a set call that triggers, the candidate is the
\* stored value, send is true, and wait_resp is the mode the call ran under
C10_TriggerRaisesSend ==
    (SetDone /\ last.trig)
    => /\ StoredCandidate(proxy_pool[last.id], last.set)
       /\ proxy_pool[last.id].send
       /\ proxy_pool[last.id].wait_resp = last.wait

\* C10: after a set call that triggers, the candidate is the stored value
\* (a raw candidate cut to KNOT_DATA_RAW_SIZE), wait_resp is the mode the
\* call ran under, and send equals that mode: raised in wait mode, false
\* outside it
C10_TriggerEffect ==
    (SetDone /\ last.trig)
    => /\ StoredCandidate(proxy_pool[last.id], last.set)
       /\ proxy_pool[last.id].send = last.wait
       /\ proxy_pool[last.id].wait_resp = last.wait

\* a set call triggered outside wait mode and left send false
C10_Witness ==
    /\ SetDone
    /\ last.trig
    /\ ~last.wait
    /\ ~proxy_pool[last.id].send
    /\ StoredCandidate(proxy_pool[last.id], last.set)

\* C11: a channel with send and wait_resp both true keeps send true through
\* every call but a proxy_confirm_sent on it
C11_PendingUntilConfirmed ==
    [][\A id \in Slots :
         ( /\ proxy_pool[id].send
           /\ proxy_pool[id].wait_resp
           /\ ~(Called /\ last'.op = "confirm" /\ last'.id = id) )
         => proxy_pool'[id].send]_vars

\* C12: a knot_proxy_set_config that returns false (id out of range, channel
\* not registered, option not recognized, knot_config_is_valid refusing)
\* leaves every field of every channel, and last_id, as they were
C12_FailedConfigKeepsAll ==
    [][(Called /\ last'.op = "config" /\ last'.ret = 0)
       => /\ proxy_pool' = proxy_pool
          /\ last_id' = last_id]_vars

\* a configured channel refused a call that began with KNOT_EVT_FLAG_CHANGE,
\* and does not have that flag
C12_Witness ==
    /\ last.op = "config"
    /\ last.ret = 0
    /\ last.id \in Slots
    /\ Registered(last.id)
    /\ Len(last.args) > 1
    /\ last.args[1] = KNOT_EVT_FLAG_CHANGE
    /\ FlagsAt(last.id) # {}
    /\ KNOT_EVT_FLAG_CHANGE \notin FlagsAt(last.id)

\* the configuration that the arguments args describe on a channel of type
\* vt: the flags and the period they name, the limits they give, zero for
\* what they leave out
ConfigOfArgs(args, vt) ==
    LET p == ParseEvents(args, 1, vt,
                 [event_flags |-> {}, time_sec |-> 0,
                  lower_limit |-> 0, upper_limit |-> 0, ok |-> TRUE])
    IN  [ event_flags |-> p.event_flags, time_sec |-> p.time_sec,
          lower_limit |-> p.lower_limit, upper_limit |-> p.upper_limit ]

\* C13: after a knot_proxy_set_config that returns true, the configuration
\* of the channel (flags, period, both limits) is the one its arguments
\* describe, whatever the channel was configured with before
C13_ConfigFromArgsAlone ==
    [][\A id \in Slots :
         (Called /\ last'.op = "config" /\ last'.id = id /\ last'.ret = 1)
         => proxy_pool'[id].config = ConfigOfArgs(last'.args, TypeAt(id))]_vars

\* C14: proxy_write to an id that was never registered, inside the table or
\* beyond it, returns an error, and proxy_write to a registered channel with
\* no changed_cb returns zero; either way no channel changes, no callback
\* runs and no slot outside proxy_pool is accessed
C14_DeliverUnknown ==
    [][(Called /\ last'.op = "write")
       => LET id == last'.id
          IN  /\ (id \notin Slots \/ ~Registered(id))
                 => /\ last'.ret = -EINVAL
                    /\ proxy_pool' = proxy_pool
                    /\ last'.set = NoSet
                    /\ ~wild'
              /\ (id \in Slots /\ Registered(id)
                    /\ proxy_pool[id].changed_cb = NULL)
                 => /\ last'.ret = 0
                    /\ proxy_pool' = proxy_pool
                    /\ last'.set = NoSet
                    /\ ~wild']_vars

\* whether c is above the upper limit, below the lower limit, of a numeric
\* channel
Above(proxy, c) ==
    IF proxy.schema.value_type = KNOT_VALUE_TYPE_FLOAT
    THEN F32Gt(c, proxy.config.upper_limit)
    ELSE c > proxy.config.upper_limit

Below(proxy, c) ==
    IF proxy.schema.value_type = KNOT_VALUE_TYPE_FLOAT
    THEN F32Lt(c, proxy.config.lower_limit)
    ELSE c < proxy.config.lower_limit

\* C15: on a numeric channel upper_flag is true only if the upper threshold
\* is configured and the candidate of the last set call is above the limit
\* configured now, and lower_flag likewise with the lower threshold
C15_LatchesFollowLimits ==
    \A id \in Slots :
        TypeAt(id) \in {KNOT_VALUE_TYPE_INT, KNOT_VALUE_TYPE_FLOAT}
        => /\ proxy_pool[id].upper_flag
              => /\ KNOT_EVT_FLAG_UPPER_THRESHOLD \in FlagsAt(id)
                 /\ hset[id].n = 1
                 /\ Above(proxy_pool[id], hset[id].w)
           /\ proxy_pool[id].lower_flag
              => /\ KNOT_EVT_FLAG_LOWER_THRESHOLD \in FlagsAt(id)
                 /\ hset[id].n = 1
                 /\ Below(proxy_pool[id], hset[id].w)

\* C16: after every set call on an Int32 or float channel, triggering or
\* not, upper_flag tells whether the upper threshold is configured and the
\* candidate above the limit, and lower_flag the same of the lower threshold,
\* each by itself; and a set call that does not trigger leaves value, send,
\* olen and last_timeout as it found them
C16_LatchesEveryCall ==
    [][\A id \in Slots :
         ( /\ SetCalled(id)
           /\ TypeAt(id) \in {KNOT_VALUE_TYPE_INT, KNOT_VALUE_TYPE_FLOAT} )
         => LET p == proxy_pool[id]
                q == proxy_pool'[id]
                c == Candidate(last'.set, TypeAt(id))
            IN  /\ q.upper_flag <=>
                     ( /\ KNOT_EVT_FLAG_UPPER_THRESHOLD \in FlagsAt(id)
                       /\ Above(p, c) )
                /\ q.lower_flag <=>
                     ( /\ KNOT_EVT_FLAG_LOWER_THRESHOLD \in FlagsAt(id)
                       /\ Below(p, c) )
                /\ ~last'.trig
                   => /\ q.send = p.send
                      /\ q.last_timeout = p.last_timeout
                      /\ last'.op \in {"set", "read"} => q.value = p.value
                      /\ last'.op = "set" => q.olen = p.olen
                      /\ last'.op = "read" => q.olen = 0]_vars

\* a set call on a channel with both thresholds did not trigger, its
\* candidate below the lower limit as the one before it
C16_Witness ==
    /\ SetDone
    /\ TypeAt(last.id) \in {KNOT_VALUE_TYPE_INT, KNOT_VALUE_TYPE_FLOAT}
    /\ {KNOT_EVT_FLAG_UPPER_THRESHOLD, KNOT_EVT_FLAG_LOWER_THRESHOLD}
         \subseteq FlagsAt(last.id)
    /\ ~last.trig
    /\ Below(proxy_pool[last.id], Candidate(last.set, TypeAt(last.id)))
    /\ proxy_pool[last.id].lower_flag
    /\ ~proxy_pool[last.id].upper_flag

\* C17: a set call that returns false because the variant does not take the
\* type of the channel, or because the handle is null, changes nothing:
\* value, rlen, olen, send, wait_resp, both latches and last_timeout stay,
\* also with the timer configured and its period over
C17_RejectedSetNoMutation ==
    [][( /\ Called
         /\ last'.op \in {"set", "read"}
         /\ last'.set.kind # 0
         /\ last'.id \in Slots
            => Registered(last'.id) /\ ~Evaluated(last'.set, TypeAt(last'.id)) )
       => /\ ~last'.trig
          /\ \A id \in Slots :
               LET p == proxy_pool[id]
                   q == proxy_pool'[id]
               IN  /\ q.value = p.value
                   /\ q.rlen = p.rlen
                   /\ q.send = p.send
                   /\ q.upper_flag = p.upper_flag
                   /\ q.lower_flag = p.lower_flag
                   /\ q.last_timeout = p.last_timeout
                   /\ last'.op = "set"
                      => q.olen = p.olen /\ q.wait_resp = p.wait_resp]_vars

\* C18: proxy_write on a registered channel with a changed_cb returns the
\* olen of the set call that the callback made and that triggered, and zero
\* when the callback made no set call or one that did not trigger
C18_DeliverReplyLength ==
    [][\A id \in Slots :
         ( /\ Called
           /\ last'.op = "write"
           /\ last'.id = id
           /\ Registered(id)
           /\ proxy_pool[id].changed_cb # NULL )
         => last'.ret = IF last'.trig THEN proxy_pool'[id].olen ELSE 0]_vars

\* C20: proxy_read on a registered channel with a poll_cb returns the value,
\* with its olen, exactly when the set call made by the callback triggered,
\* whatever the type and the length of the candidate
C20_ObserveIffTriggered ==
    [][\A id \in Slots :
         ( /\ Called
           /\ last'.op = "read"
           /\ last'.id = id
           /\ Registered(id)
           /\ proxy_pool[id].poll_cb # NULL )
         => /\ last'.ret # -1 <=> last'.trig
            /\ last'.ret # -1 => last'.ret = proxy_pool'[id].olen]_vars

\* what the two calls of ctx leave and return when the one runs to its end
\* before the other begins, proxy_read first
SerialReadWrite ==
    LET pool == [proxy_pool EXCEPT ![ctx.id] = ctx.pre]
        r == proxy_read(pool, ctx.id, ctx.wait, ctx.rcb, uptime)
        w == proxy_write(r.pool, last_id, ctx.id, ctx.value, ctx.len, ctx.wcb,
                         uptime)
    IN  [ proxy |-> w.pool[ctx.id], rret |-> r.ret, wret |-> w.ret ]

\* the same, proxy_write first
SerialWriteRead ==
    LET pool == [proxy_pool EXCEPT ![ctx.id] = ctx.pre]
        w == proxy_write(pool, last_id, ctx.id, ctx.value, ctx.len, ctx.wcb,
                         uptime)
        r == proxy_read(w.pool, ctx.id, ctx.wait, ctx.rcb, uptime)
    IN  [ proxy |-> r.pool[ctx.id], rret |-> r.ret, wret |-> w.ret ]

\* C19: when a proxy_read and a proxy_write of one channel have run in two
\* contexts and both have returned, the channel and the two values returned
\* are those of one of the two orders in which the calls can run one after
\* the other
C19_Serialized ==
    (ctx.busy /\ ctx.rpc = 5 /\ ctx.wpc = 5)
    => [ proxy |-> proxy_pool[ctx.id], rret |-> ctx.rret, wret |-> ctx.wret ]
         \in { SerialReadWrite, SerialWriteRead }

=============================================================================
